---- MODULE Spec2Model ----
(***************************************************************************)
(* Model of unjobs_watcher.py: the seen-store, the page parser, the        *)
(* notifier and the check cycle (check_once) driven by __main__.           *)
(*                                                                         *)
(* Strings are sequences of character codes, so that Python's sorted()     *)
(* (code-point lexicographic order), f-strings and "\n".join are computed  *)
(* as the code computes them.                                              *)
(***************************************************************************)
EXTENDS Integers, Sequences, FiniteSets, TLC

\* ------------------------------------------------------------------ bounds
\* most anchors matched by find_all on one listing page
MaxAnchors == 1

\* --------------------------------------------------------------- constants
PAGES_TO_CHECK == 2
DEFAULT_SMTP_PORT == 587

Pages == 1..PAGES_TO_CHECK

\* ----------------------------------------------------------------- strings
Empty == << >>
NL == <<10>>                                   \* "\n"
Sep == <<58, 58>>                              \* "::"
BoldOpen == <<60, 98, 62>>                     \* "<b>"
BoldClose == <<60, 47, 98, 62>>                \* "</b>"
UpdatedPrefix == <<85, 112, 100, 97, 116, 101, 100, 58, 32>>   \* "Updated: "
Origin == <<104, 58>>                          \* "h:", scheme and host of BASE_URL
RelA == <<47, 97>>                             \* "/a", a root-relative href
RelB == <<47, 98>>                             \* "/b"
AbsA == Origin \o RelA                         \* "h:/a", the same posting as an absolute href
TitleP == <<80>>                               \* "P"
TitleQ == <<81>>                               \* "Q"
OrgO == <<79>>                                 \* "O"
StampT1 == <<116, 49>>                         \* "t1"

Min(a, b) == IF a < b THEN a ELSE b

\* Python's str < str: lexicographic by code point, a proper prefix is smaller
LexLess(a, b) ==
    \E k \in 0..Min(Len(a), Len(b)) :
        /\ \A i \in 1..k : a[i] = b[i]
        /\ \/ k = Len(a) /\ k < Len(b)
           \/ k < Len(a) /\ k < Len(b) /\ a[k + 1] < b[k + 1]

StartsWith(s, pre) ==
    /\ Len(pre) <= Len(s)
    /\ SubSeq(s, 1, Len(pre)) = pre

Range(s) == {s[i] : i \in DOMAIN s}

RECURSIVE Concat(_)
\* the concatenation of a sequence of sequences
Concat(ss) == IF ss = << >> THEN << >> ELSE Head(ss) \o Concat(Tail(ss))

RECURSIVE SortedSeq(_)
\* sorted(S) for a finite set of strings
SortedSeq(S) ==
    IF S = {} THEN << >>
    ELSE LET m == CHOOSE x \in S : \A y \in S \ {x} : LexLess(x, y)
         IN <<m>> \o SortedSeq(S \ {m})

RECURSIVE Join(_)
\* "\n".join(lines)
Join(lines) ==
    IF lines = << >> THEN Empty
    ELSE IF Len(lines) = 1 THEN lines[1]
    ELSE lines[1] \o NL \o Join(Tail(lines))

\* ------------------------------------------------------------ the web site
\* An anchor matched by find_all(href=/jobs/), with what the extraction
\* heuristics read around it: its text, its href, the organisation found by
\* the sibling walk and the token after the next "Updated:" text.
\* The listings the site publishes: one posting under two hrefs and titles,
\* the same posting with a timestamp, and a second posting.
Anchors ==
    { [text |-> TitleP, href |-> RelA, org |-> Empty, upd |-> Empty],
      [text |-> TitleQ, href |-> AbsA, org |-> OrgO,  upd |-> Empty],
      [text |-> TitleP, href |-> RelA, org |-> OrgO,  upd |-> StampT1],
      [text |-> TitleP, href |-> RelB, org |-> Empty, upd |-> StampT1] }

RECURSIVE SeqsUpTo(_, _)
SeqsUpTo(S, n) ==
    IF n = 0 THEN {<< >>}
    ELSE LET shorter == SeqsUpTo(S, n - 1)
         IN shorter \cup {Append(s, x) : s \in {t \in shorter : Len(t) = n - 1}, x \in S}

Htmls == SeqsUpTo(Anchors, MaxAnchors)
Sites == [Pages -> Htmls]

\* -------------------------------------------------------------- seen store
NoFile == [exists |-> FALSE, content |-> << >>]

load_seen(f) == IF f.exists THEN Range(f.content) ELSE {}

save_seen(s) == [exists |-> TRUE, content |-> SortedSeq(s)]

\* ------------------------------------------------------------------ parser
\* urljoin(base, href) for an absolute href and for a root-relative one
urljoin(href) == IF StartsWith(href, Origin) THEN href ELSE Origin \o href

\* the id with the separator left out when there is no timestamp
job_id_bare_link(link, updated) ==
    IF updated = Empty THEN link ELSE link \o Sep \o updated

job_id(link, updated) == link \o Sep \o updated

RECURSIVE parse_scan(_, _)
parse_scan(html, seen_links) ==
    IF html = << >> THEN << >>
    ELSE LET a == Head(html)
             link == urljoin(a.href)
         IN IF a.text = Empty \/ link \in seen_links
            THEN parse_scan(Tail(html), seen_links)
            ELSE <<[id |-> job_id(link, a.upd), title |-> a.text, org |-> a.org,
                    link |-> link, updated |-> a.upd]>>
                 \o parse_scan(Tail(html), seen_links \cup {link})

RECURSIVE parse_scan_marking(_, _)
parse_scan_marking(html, seen_links) ==
    IF html = << >> THEN << >>
    ELSE LET a == Head(html)
             link == urljoin(a.href)
         IN IF link \in seen_links
            THEN parse_scan_marking(Tail(html), seen_links)
            ELSE IF a.text = Empty
            THEN parse_scan_marking(Tail(html), seen_links \cup {link})
            ELSE <<[id |-> job_id(link, a.upd), title |-> a.text, org |-> a.org,
                    link |-> link, updated |-> a.upd]>>
                 \o parse_scan_marking(Tail(html), seen_links \cup {link})

\* the scan with the link marked as processed before the title is looked at
parse_jobs_marking_untitled(html) == parse_scan_marking(html, {})

parse_jobs(html) == parse_scan(html, {})

\* ---------------------------------------------------------------- notifier
\* The environment variables the two channels read, and what the network does.
\* A variable that is unset or empty is FALSE; SMTP_PORT keeps its text.
PortTexts == {Empty, <<50, 53>>, <<120>>}       \* unset, "25", "x"
AllEnvs ==
    [TELEGRAM_BOT_TOKEN : BOOLEAN, TELEGRAM_CHAT_ID : BOOLEAN,
     SMTP_HOST : BOOLEAN, SMTP_USER : BOOLEAN, SMTP_PASS : BOOLEAN,
     ALERT_EMAIL : BOOLEAN, SMTP_PORT : PortTexts]
SmtpSet(env) ==
    {v \in {"SMTP_HOST", "SMTP_USER", "SMTP_PASS", "ALERT_EMAIL"} : env[v]}
\* the four SMTP variables are all set, all but one, or none
Envs == {env \in AllEnvs : Cardinality(SmtpSet(env)) # 1 /\ Cardinality(SmtpSet(env)) # 2}
Nets == [telegram : BOOLEAN, smtp : BOOLEAN]    \* TRUE: the request goes through
\* a channel's network outcome is an input only where the channel is configured
AlertInputs ==
    {inp \in Envs \X Nets :
        /\ inp[2].telegram => (inp[1].TELEGRAM_BOT_TOKEN /\ inp[1].TELEGRAM_CHAT_ID)
        /\ inp[2].smtp => Cardinality(SmtpSet(inp[1])) = 4}

\* int(text): a ValueError unless the text is a decimal number
IsDecimal(text) == text # Empty /\ \A i \in DOMAIN text : text[i] \in 48..57

RECURSIVE DecimalValue(_)
DecimalValue(text) ==
    IF text = Empty THEN 0
    ELSE 10 * DecimalValue(SubSeq(text, 1, Len(text) - 1)) + (text[Len(text)] - 48)

\* int(os.getenv("SMTP_PORT") or 587)
smtp_port(env) ==
    IF env.SMTP_PORT = Empty THEN [raised |-> FALSE, port |-> DEFAULT_SMTP_PORT]
    ELSE IF IsDecimal(env.SMTP_PORT)
         THEN [raised |-> FALSE, port |-> DecimalValue(env.SMTP_PORT)]
         ELSE [raised |-> TRUE, port |-> 0]

\* the outcome of send_telegram: "unconfigured" and "failed" return False,
\* "sent" returns True
send_telegram(env, net) ==
    IF ~(env.TELEGRAM_BOT_TOKEN /\ env.TELEGRAM_CHAT_ID) THEN "unconfigured"
    ELSE IF net.telegram THEN "sent"
    ELSE "failed"

\* the outcome of send_email: "raised" is the ValueError of int() leaving the
\* function, the others return False, False and True
send_email(env, net) ==
    IF smtp_port(env).raised THEN "raised"
    ELSE IF ~(env.SMTP_HOST /\ env.SMTP_USER /\ env.SMTP_PASS /\ env.ALERT_EMAIL)
         THEN "unconfigured"
    ELSE IF net.smtp THEN "sent"
    ELSE "failed"

record_lines(j) ==
    << BoldOpen \o j.title \o BoldClose,
       j.org,
       j.link,
       IF j.updated # Empty THEN UpdatedPrefix \o j.updated ELSE Empty,
       Empty >>

RECURSIVE alert_lines(_)
alert_lines(new_jobs) ==
    IF new_jobs = << >> THEN << >>
    ELSE record_lines(Head(new_jobs)) \o alert_lines(Tail(new_jobs))

kept_line(x) == x # Empty

alert_msg(new_jobs) == Join(SelectSeq(alert_lines(new_jobs), kept_line))

\* what alert does with the two channels: the primary first, the secondary
\* only if the primary returned False
alert_channels(env, net) ==
    LET ok == send_telegram(env, net)
    IN [tg |-> ok,
        mail |-> IF ok = "sent" THEN "notcalled" ELSE send_email(env, net)]

\* ------------------------------------------------------------------ differ
RECURSIVE dedup_scan(_, _)
dedup_scan(found_, uniq) ==
    IF found_ = << >> THEN << >>
    ELSE LET j == Head(found_)
         IN IF j.id \in uniq THEN dedup_scan(Tail(found_), uniq)
            ELSE <<j>> \o dedup_scan(Tail(found_), uniq \cup {j.id})

RECURSIVE dedup_last_scan(_)
dedup_last_scan(found_) ==
    IF found_ = << >> THEN << >>
    ELSE IF \E k \in 2..Len(found_) : found_[k].id = found_[1].id
         THEN dedup_last_scan(Tail(found_))
         ELSE <<Head(found_)>> \o dedup_last_scan(Tail(found_))

\* dedup with a later record replacing the earlier one of the same id
dedup_keeps_last(found_) == dedup_last_scan(found_)

dedup(found_) == dedup_scan(found_, {})

\* the filter with the link, not the id, looked up in the seen set
novel_by_link(seen_ids_, seen_) ==
    LET is_new(j) == j.link \notin seen_ IN SelectSeq(seen_ids_, is_new)

novel(seen_ids_, seen_) ==
    LET is_new(j) == j.id \notin seen_ IN SelectSeq(seen_ids_, is_new)

ids_of(jobs) == {jobs[i].id : i \in DOMAIN jobs}

\* ------------------------------------------------------------------- state
VARIABLES
    site,       \* what each listing page of the web site holds
    file,       \* SEEN_FILE: whether it exists and the JSON list in it
    seen,       \* the process's in-memory seen set
    once,       \* args.once
    pc,         \* where the process is
    p,          \* the page index of the loop in check_once
    found,      \* check_once's found
    failed,     \* the page indexes whose fetch or parse raised in this cycle
    seen_ids,   \* check_once's seen_ids, the deduplicated records
    new,        \* check_once's new
    tg,         \* what send_telegram did in this cycle
    mail,       \* what send_email did in this cycle
    msg,        \* the message alert built in this cycle
    wrote,      \* save_seen ran in this cycle
    seen0,      \* the in-memory seen set at the start of this cycle
    file0,      \* the file at the start of this cycle
    prev,       \* the previous completed cycle on the present site contents
    alerted,    \* the ids that have been in a delivery attempt so far
    \* the seen store on its own: load_seen and save_seen on any file content
    disk,       \* the text of SEEN_FILE, as the JSON value it parses to
    disk0,      \* the text before save_seen was called
    st_pc,      \* where the caller of the store is
    st_list,    \* the sorted list save_seen is writing
    st_result,  \* what load_seen gave
    \* parse_jobs on its own
    ps_pc,      \* whether parse_jobs has run
    ps_html,    \* the anchors of the page given to parse_jobs
    ps_jobs,    \* the records parse_jobs returned
    \* two invocations of the process on one SEEN_FILE
    rfile,      \* the file they share
    rpc,        \* where each invocation is
    rseen,      \* each invocation's in-memory seen set
    rnew,       \* the new ids each invocation alerted and is about to save
    rsaved,     \* the ids some invocation has written to the file so far
    relost,     \* the ids alerted again after an invocation had saved them
    raced       \* an invocation saved over a file changed since it loaded it

cyclevars == <<site, file, seen, once, pc, p, found, failed, seen_ids, new, tg,
               mail, msg, wrote, seen0, file0, prev, alerted>>
storevars == <<disk, disk0, st_pc, st_list, st_result>>
parsevars == <<ps_pc, ps_html, ps_jobs>>
racevars == <<rfile, rpc, rseen, rnew, rsaved, relost, raced>>
\* what the watcher's own cycle leaves alone
side == <<storevars, parsevars, racevars>>

vars == <<cyclevars, storevars, parsevars, racevars>>

Procs == {1, 2}

\* no text at all: the file does not exist
NoDoc == [exists |-> FALSE, complete |-> FALSE, kind |-> "none", items |-> << >>]
NoResult == [raised |-> FALSE, value |-> {}]

StoreIdle ==
    /\ disk = NoDoc
    /\ disk0 = NoDoc
    /\ st_pc = "off"
    /\ st_list = << >>
    /\ st_result = NoResult

ParseIdle ==
    /\ ps_pc = "off"
    /\ ps_html = << >>
    /\ ps_jobs = << >>

RaceIdle ==
    /\ rfile = [exists |-> FALSE, content |-> << >>]
    /\ rpc = [i \in Procs |-> "off"]
    /\ rseen = [i \in Procs |-> {}]
    /\ rnew = [i \in Procs |-> {}]
    /\ rsaved = {}
    /\ relost = {}
    /\ raced = FALSE

NoPrev == [saved |-> FALSE, fetched |-> {}]

\* the locals of check_once and of alert as a cycle starts
EnterCycle ==
    /\ p' = 1
    /\ found' = << >>
    /\ failed' = {}
    /\ seen_ids' = << >>
    /\ new' = << >>
    /\ tg' = "notcalled"
    /\ mail' = "notcalled"
    /\ msg' = Empty
    /\ wrote' = FALSE

Init ==
    /\ site \in Sites
    /\ file = NoFile
    /\ seen = {}
    /\ once = FALSE
    /\ pc = "stopped"
    /\ p = 1
    /\ found = << >>
    /\ failed = {}
    /\ seen_ids = << >>
    /\ new = << >>
    /\ tg = "notcalled"
    /\ mail = "notcalled"
    /\ msg = Empty
    /\ wrote = FALSE
    /\ seen0 = {}
    /\ file0 = NoFile
    /\ prev = NoPrev
    /\ alerted = {}
    /\ StoreIdle
    /\ ParseIdle
    /\ RaceIdle

\* ----------------------------------------------------------------- actions
\* __main__: parse the flag, load the seen set, enter the first cycle
main(flag) ==
    /\ UNCHANGED <<alerted, side>>
    /\ pc = "stopped"
    /\ once' = flag
    /\ seen' = load_seen(file)
    /\ seen0' = load_seen(file)
    /\ file0' = file
    /\ pc' = "fetch"
    /\ EnterCycle
    /\ UNCHANGED <<site, file, prev>>

\* one iteration of the page loop whose fetch and parse succeed
fetch_ok ==
    /\ UNCHANGED <<alerted, side>>
    /\ pc = "fetch"
    /\ p <= PAGES_TO_CHECK
    /\ found' = found \o parse_jobs(site[p])
    /\ p' = p + 1
    /\ UNCHANGED <<site, file, seen, once, pc, failed, seen_ids, new, tg, mail,
                   msg, wrote, seen0, file0, prev>>

\* the page loop with the try around the loop: a raise ends the loop
fetch_raise_leaves_loop ==
    /\ UNCHANGED <<alerted, side>>
    /\ pc = "fetch"
    /\ p <= PAGES_TO_CHECK
    /\ failed' = failed \cup {p}
    /\ p' = PAGES_TO_CHECK + 1
    /\ UNCHANGED <<site, file, seen, once, pc, found, seen_ids, new, tg, mail,
                   msg, wrote, seen0, file0, prev>>

\* one iteration of the page loop whose fetch or parse raises: logged
fetch_raise ==
    /\ UNCHANGED <<alerted, side>>
    /\ pc = "fetch"
    /\ p <= PAGES_TO_CHECK
    /\ failed' = failed \cup {p}
    /\ p' = p + 1
    /\ UNCHANGED <<site, file, seen, once, pc, found, seen_ids, new, tg, mail,
                   msg, wrote, seen0, file0, prev>>

\* "unique & new": the dedup loop, the novelty filter and the branch on new
merge ==
    /\ UNCHANGED <<alerted, side>>
    /\ pc = "fetch"
    /\ p > PAGES_TO_CHECK
    /\ seen_ids' = dedup(found)
    /\ new' = novel(dedup(found), seen)
    /\ pc' = IF novel(dedup(found), seen) # << >> THEN "alert" ELSE "nonew"
    /\ UNCHANGED <<site, file, seen, once, p, found, failed, tg, mail, msg,
                   wrote, seen0, file0, prev>>

\* alert(new): build the message, try the primary channel, then the secondary;
\* an exception leaving send_email leaves alert, check_once and the process
alert_call(env, net) ==
    /\ pc = "alert"
    /\ msg' = alert_msg(new)
    /\ tg' = alert_channels(env, net).tg
    /\ mail' = alert_channels(env, net).mail
    /\ pc' = IF alert_channels(env, net).mail = "raised" THEN "aborted" ELSE "persist"
    /\ prev' = IF alert_channels(env, net).mail = "raised" THEN NoPrev ELSE prev
    /\ UNCHANGED <<site, file, seen, once, p, found, failed, seen_ids, new,
                   wrote, seen0, file0>>
    /\ UNCHANGED side

alert(env, net) ==
    /\ alert_call(env, net)
    /\ UNCHANGED alerted

\* alert, with the ids of its records added to the log of delivery attempts
alert_logged(env, net) ==
    /\ alert_call(env, net)
    /\ alerted' = alerted \cup ids_of(new)

\* the save without the update of the set before it
persist_without_update ==
    /\ UNCHANGED <<alerted, side>>
    /\ pc = "persist"
    /\ file' = save_seen(seen)
    /\ wrote' = TRUE
    /\ pc' = "done"
    /\ UNCHANGED <<site, seen, once, p, found, failed, seen_ids, new, tg, mail,
                   msg, seen0, file0, prev>>

\* the set replaced by the new ids, not extended with them
persist_replaces ==
    /\ UNCHANGED <<alerted, side>>
    /\ pc = "persist"
    /\ seen' = ids_of(new)
    /\ file' = save_seen(ids_of(new))
    /\ wrote' = TRUE
    /\ pc' = "done"
    /\ UNCHANGED <<site, once, p, found, failed, seen_ids, new, tg, mail, msg,
                   seen0, file0, prev>>

\* the file saved before the set is updated
persist_saves_first ==
    /\ UNCHANGED <<alerted, side>>
    /\ pc = "persist"
    /\ seen' = seen \cup ids_of(new)
    /\ file' = save_seen(seen)
    /\ wrote' = TRUE
    /\ pc' = "done"
    /\ UNCHANGED <<site, once, p, found, failed, seen_ids, new, tg, mail, msg,
                   seen0, file0, prev>>

\* seen.update(ids of new); save_seen(seen)
persist ==
    /\ UNCHANGED <<alerted, side>>
    /\ pc = "persist"
    /\ seen' = seen \cup ids_of(new)
    /\ file' = save_seen(seen \cup ids_of(new))
    /\ wrote' = TRUE
    /\ pc' = "done"
    /\ UNCHANGED <<site, once, p, found, failed, seen_ids, new, tg, mail, msg,
                   seen0, file0, prev>>

\* the else branch with save_seen called on it as well
no_new_saves ==
    /\ UNCHANGED <<alerted, side>>
    /\ pc = "nonew"
    /\ file' = save_seen(seen)
    /\ wrote' = TRUE
    /\ pc' = "done"
    /\ UNCHANGED <<site, seen, once, p, found, failed, seen_ids, new, tg, mail,
                   msg, seen0, file0, prev>>

\* the else branch: log "No new jobs."
no_new ==
    /\ UNCHANGED <<alerted, side>>
    /\ pc = "nonew"
    /\ pc' = "done"
    /\ UNCHANGED <<site, file, seen, once, p, found, failed, seen_ids, new, tg,
                   mail, msg, wrote, seen0, file0, prev>>

\* the return with the flag not looked at: the process always sleeps and loops
return_ignores_once ==
    /\ UNCHANGED <<alerted, side>>
    /\ pc = "done"
    /\ pc' = "sleep"
    /\ once' = FALSE
    /\ prev' = IF wrote THEN [saved |-> TRUE, fetched |-> Pages \ failed] ELSE NoPrev
    /\ seen0' = seen
    /\ file0' = file
    /\ EnterCycle
    /\ UNCHANGED <<site, file, seen>>

\* check_once returns to __main__: exit with --once, else sleep; the locals
\* of the finished call are gone, and with the process its arguments
return ==
    /\ UNCHANGED <<alerted, side>>
    /\ pc = "done"
    /\ pc' = IF once THEN "stopped" ELSE "sleep"
    /\ once' = FALSE
    /\ prev' = IF wrote THEN [saved |-> TRUE, fetched |-> Pages \ failed] ELSE NoPrev
    /\ seen0' = seen
    /\ file0' = file
    /\ EnterCycle
    /\ UNCHANGED <<site, file, seen>>

\* the sleep of loop mode ends: the next check_once(seen)
wake ==
    /\ UNCHANGED <<alerted, side>>
    /\ pc = "sleep"
    /\ pc' = "fetch"
    /\ seen0' = seen
    /\ file0' = file
    /\ EnterCycle
    /\ UNCHANGED <<site, file, seen, once, prev>>

\* the looping process is stopped from outside while it sleeps
terminate ==
    /\ UNCHANGED <<alerted, side>>
    /\ pc = "sleep"
    /\ pc' = "stopped"
    /\ UNCHANGED <<site, file, seen, once, p, found, failed, seen_ids, new, tg,
                   mail, msg, wrote, seen0, file0, prev>>

\* the uncaught exception ends the process with a traceback
abort ==
    /\ UNCHANGED <<alerted, side>>
    /\ pc = "aborted"
    /\ pc' = "stopped"
    /\ once' = FALSE
    /\ seen0' = seen
    /\ file0' = file
    /\ EnterCycle
    /\ UNCHANGED <<site, file, seen, prev>>

\* between cycles the web site publishes other listings on one of its pages
site_update ==
    /\ UNCHANGED <<alerted, side>>
    /\ pc \in {"stopped", "sleep"}
    /\ \E q \in Pages : \E html \in Htmls \ {site[q]} :
           site' = [site EXCEPT ![q] = html]
    /\ prev' = NoPrev
    /\ UNCHANGED <<file, seen, once, pc, p, found, failed, seen_ids, new, tg,
                   mail, msg, wrote, seen0, file0>>

Next ==
    \/ \E flag \in BOOLEAN : main(flag)
    \/ fetch_ok
    \/ fetch_raise
    \/ merge
    \/ \E inp \in AlertInputs : alert(inp[1], inp[2])
    \/ abort
    \/ persist
    \/ no_new
    \/ return
    \/ wake
    \/ terminate
    \/ site_update

Spec == Init /\ [][Next]_vars

TypeOK ==
    /\ site \in Sites
    /\ pc \in {"stopped", "aborted", "fetch", "alert", "persist", "nonew", "done", "sleep"}
    /\ p \in 1..(PAGES_TO_CHECK + 1)
    /\ failed \subseteq Pages
    /\ tg \in {"notcalled", "unconfigured", "failed", "sent"}
    /\ mail \in {"notcalled", "unconfigured", "failed", "sent", "raised"}
    /\ wrote \in BOOLEAN
    /\ once \in BOOLEAN

\* ------------------------------------------------------------- properties
\* the dedup, the filter and the branch of this cycle have run
Merged == pc \in {"alert", "persist", "nonew", "done", "aborted"}

\* this cycle's alert call is over (it returned or raised)
Alerted == tg # "notcalled"

\* this cycle is over: check_once returned, or an exception left it
CycleEnded == pc \in {"done", "aborted"}

RECURSIVE FoundUpTo(_)
\* the records of the pages 1..n that did not raise, in page order
FoundUpTo(n) ==
    IF n = 0 THEN << >>
    ELSE FoundUpTo(n - 1) \o (IF n \in failed THEN << >> ELSE parse_jobs(site[n]))

FirstIndex(jobs, id) ==
    CHOOSE i \in DOMAIN jobs : jobs[i].id = id /\ \A k \in 1..(i - 1) : jobs[k].id # id

StrictlySorted(list) == \A i \in 1..(Len(list) - 1) : LexLess(list[i], list[i + 1])

\* C1: in every cycle with a non-empty new, once the cycle is over the
\* delivery was attempted and then the new ids were added to the seen set and
\* the file was saved, whatever the delivery attempt did.
C1_AlertThenPersist ==
    (CycleEnded /\ new # << >>) =>
        /\ Alerted
        /\ wrote
        /\ ids_of(new) \subseteq seen
        /\ file.exists /\ ids_of(new) \subseteq Range(file.content)

\* C2: after a cycle that found new records and persisted them, a cycle on
\* the same page contents (no page parsed now that failed then) finds no new
\* record, attempts no delivery and leaves the file as it was.
C2_SecondCycleFindsNothing ==
    (Merged /\ prev.saved /\ (Pages \ failed) \subseteq prev.fetched) =>
        /\ new = << >>
        /\ tg = "notcalled" /\ mail = "notcalled"
        /\ ~wrote
        /\ file = file0

C2_Witness ==
    /\ pc = "done"
    /\ prev.saved
    /\ (Pages \ failed) \subseteq prev.fetched
    /\ found # << >>

\* C3: after a cycle with a non-empty new, the file holds exactly the ids of
\* the seen set at cycle start and the ids of the new records, once each, as
\* a sorted list.
C3_FileIsSortedUnion ==
    (CycleEnded /\ new # << >>) =>
        /\ file.exists
        /\ Range(file.content) = seen0 \cup ids_of(new)
        /\ StrictlySorted(file.content)

\* what C3 says, of the cycles in which save_seen ran
SavedFileIsSortedUnion ==
    wrote =>
        /\ file.exists
        /\ Range(file.content) = seen0 \cup ids_of(new)
        /\ StrictlySorted(file.content)

\* C4: a page whose fetch or parse raises does not abort the cycle: it adds
\* no record, every page index up to PAGES_TO_CHECK is attempted, and the
\* dedup, the filter, the alert and the save work on the records of the
\* pages that did not raise.
C4_PageFailureDoesNotAbort ==
    /\ (pc = "aborted") => (mail = "raised")
    /\ (pc = "fetch") => (found = FoundUpTo(p - 1))
    /\ Merged =>
          /\ p = PAGES_TO_CHECK + 1
          /\ found = FoundUpTo(PAGES_TO_CHECK)
          /\ ids_of(seen_ids) = ids_of(FoundUpTo(PAGES_TO_CHECK))
          /\ ids_of(new) = ids_of(FoundUpTo(PAGES_TO_CHECK)) \ seen0
    /\ (Merged /\ new # << >> /\ pc # "alert") => Alerted
    /\ wrote => Range(file.content) = seen0 \cup (ids_of(FoundUpTo(PAGES_TO_CHECK)) \ seen0)

C4_Witness ==
    /\ pc = "done"
    /\ 1 \in failed
    /\ 2 \notin failed
    /\ new # << >>
    /\ Alerted
    /\ wrote

\* C5: in alert with a non-empty list, send_email is called exactly when
\* send_telegram did not succeed, and no error of either channel leaves alert.
C5_FallbackWithoutError ==
    Alerted =>
        /\ (mail # "notcalled") <=> (tg # "sent")
        /\ mail # "raised"
        /\ pc # "aborted"

C7_DedupKeepsFirst ==
    Merged =>
        /\ \A i, k \in DOMAIN seen_ids : seen_ids[i].id = seen_ids[k].id => i = k
        /\ ids_of(seen_ids) = ids_of(found)
        /\ \A i \in DOMAIN seen_ids :
               seen_ids[i] = found[FirstIndex(found, seen_ids[i].id)]
        /\ \A i, k \in DOMAIN seen_ids :
               i < k => FirstIndex(found, seen_ids[i].id) < FirstIndex(found, seen_ids[k].id)

C7_Witness ==
    /\ Merged
    /\ \E i, k \in DOMAIN found :
           /\ i < k
           /\ found[i].id = found[k].id
           /\ found[i].title # found[k].title
           /\ seen_ids = <<found[i]>>

\* C8: a deduplicated record is among the new records given to alert exactly
\* if its id is not in the seen set of the cycle's start, and the new records
\* are in first-seen order.
C8_NewIffNotSeen ==
    Merged =>
        /\ \A i \in DOMAIN seen_ids :
               (\E n \in DOMAIN new : new[n] = seen_ids[i]) <=> (seen_ids[i].id \notin seen0)
        /\ \A n \in DOMAIN new : \E i \in DOMAIN seen_ids : new[n] = seen_ids[i]
        /\ \A m, n \in DOMAIN new :
               m < n => FirstIndex(seen_ids, new[m].id) < FirstIndex(seen_ids, new[n].id)
        /\ Alerted => msg = alert_msg(new)

C8_Witness ==
    /\ Alerted
    /\ Len(seen_ids) = 2
    /\ Len(new) = 1
    /\ new[1] = seen_ids[2]

\* the lines the message is said to hold for one record
claimed_lines(j) ==
    <<BoldOpen \o j.title \o BoldClose>>
    \o (IF j.org # Empty THEN <<j.org>> ELSE << >>)
    \o <<j.link>>
    \o (IF j.updated # Empty THEN <<UpdatedPrefix \o j.updated>> ELSE << >>)

RECURSIVE claimed_after(_)
\* the claimed message with the blank separator after every record
claimed_after(jobs) ==
    IF jobs = << >> THEN << >>
    ELSE claimed_lines(Head(jobs)) \o <<Empty>> \o claimed_after(Tail(jobs))

RECURSIVE claimed_between(_)
\* the claimed message with the blank separator between records only
claimed_between(jobs) ==
    IF jobs = << >> THEN << >>
    ELSE IF Len(jobs) = 1 THEN claimed_lines(jobs[1])
    ELSE claimed_lines(Head(jobs)) \o <<Empty>> \o claimed_between(Tail(jobs))

\* C9: the message holds, for each record in order, its title, organisation
\* (if any), link and Updated line (if any), and a blank separator line
\* between records, the only blank line kept.
C9_SeparatorKept ==
    Alerted => \/ msg = Join(claimed_after(new))
               \/ msg = Join(claimed_between(new))

\* what the code builds: the claimed lines with no separator at all
MessageHasNoBlankLine ==
    Alerted => msg = Join(Concat([i \in DOMAIN new |-> claimed_lines(new[i])]))

\* C10: a cycle with an empty new attempts no delivery, leaves the in-memory
\* seen set unchanged and neither writes nor creates the file.
C10_NoNewNoEffect ==
    (pc \in {"nonew", "done"} /\ new = << >>) =>
        /\ tg = "notcalled" /\ mail = "notcalled"
        /\ msg = Empty
        /\ seen = seen0
        /\ ~wrote
        /\ file = file0

C10_Witness ==
    /\ pc = "done"
    /\ new = << >>
    /\ failed = Pages
    /\ ~file.exists

\* -------------------------------------------------- the running process
\* The process left to itself: nobody stops it while it sleeps and the site
\* keeps its contents; check_once returns and the sleep ends.
NextRunning ==
    \/ \E flag \in BOOLEAN : main(flag)
    \/ fetch_ok
    \/ fetch_raise
    \/ merge
    \/ \E inp \in AlertInputs : alert(inp[1], inp[2])
    \/ abort
    \/ persist
    \/ no_new
    \/ return
    \/ wake

RunSpec == Init /\ [][NextRunning]_vars /\ WF_vars(return) /\ WF_vars(wake)

\* C13: with --once the process runs one cycle and exits; in loop mode a
\* completed cycle is always followed by another one, which starts from the
\* seen set the cycle before returned.
C13_OnceExitsLoopRepeats ==
    /\ [][(pc = "done" /\ once) => (pc' = "stopped")]_vars
    /\ [][(pc # "fetch" /\ pc' = "fetch") =>
             \/ pc = "stopped"
             \/ pc = "sleep" /\ seen' = seen /\ seen0' = seen]_vars
    /\ (pc = "done" /\ ~once) ~> (pc = "fetch" /\ p = 1 /\ seen0 = seen)

C13_Witness ==
    /\ pc = "fetch"
    /\ p = 1
    /\ ~once
    /\ prev.saved
    /\ seen0 # {}
    /\ seen0 = seen

\* C16: the loop retries failed pages: at the end of a cycle every listing of
\* a page that was fetched and parsed is in the seen set, either from before
\* or as a new record given to alert in this cycle, whatever failed earlier;
\* and a page that raised marks none of its listings as seen.
C16_ParsedPageIsAlertedAndSeen ==
    CycleEnded =>
        /\ \A q \in Pages \ failed :
               \A id \in ids_of(parse_jobs(site[q])) :
                   /\ id \in seen
                   /\ id \in seen0 \/ (id \in ids_of(new) /\ Alerted)
        /\ seen \ seen0 \subseteq ids_of(FoundUpTo(PAGES_TO_CHECK))

\* what C16 says of the pages that raised, and of the cycles that return
FailedPageIsNotMarkedSeen ==
    /\ Merged => (seen \ seen0 \subseteq ids_of(FoundUpTo(PAGES_TO_CHECK)))
    /\ (pc = "done") =>
          \A q \in Pages \ failed :
              \A id \in ids_of(parse_jobs(site[q])) :
                  /\ id \in seen
                  /\ id \in seen0 \/ (id \in ids_of(new) /\ Alerted)

\* C18: a record's id is its link, then "::", then its updated text, also
\* when that is empty; so a posting seen under one timestamp that comes back
\* under another is a new record and is alerted again.
C18_IdIsLinkAndTimestamp ==
    Merged =>
        /\ \A i \in DOMAIN found :
               found[i].id = found[i].link \o <<58, 58>> \o found[i].updated
        /\ \A i \in DOMAIN seen_ids :
               (seen_ids[i].id \notin seen0) => (\E n \in DOMAIN new : new[n] = seen_ids[i])
        /\ (new # << >> /\ pc # "alert") => Alerted

C18_Witness ==
    /\ Alerted
    /\ \E n \in DOMAIN new :
           /\ new[n].updated # Empty
           /\ (new[n].link \o <<58, 58>>) \in seen0
    /\ \E i \in DOMAIN found : found[i].updated = Empty

\* C19: when a cycle returns, the in-memory seen set and the file agree: the
\* file, if there is one, lists exactly the set, and with no file the set is
\* empty.
C19_MemoryAgreesWithFile ==
    (pc = "done") =>
        /\ file.exists =>
              /\ Range(file.content) = seen
              /\ Len(file.content) = Cardinality(seen)
        /\ ~file.exists => seen = {}

C19_Witness ==
    /\ pc = "done"
    /\ wrote
    /\ seen0 # {}
    /\ file.exists
    /\ Range(file.content) = seen

\* --------------------------------------------- the log of delivery attempts
\* The running process and its restarts, with every alert call logged.
NextLogged ==
    \/ \E flag \in BOOLEAN : main(flag)
    \/ fetch_ok
    \/ fetch_raise
    \/ merge
    \/ \E inp \in AlertInputs : alert_logged(inp[1], inp[2])
    \/ abort
    \/ persist
    \/ no_new
    \/ return
    \/ wake

LogSpec == Init /\ [][NextLogged]_vars

\* C14: an id is in the delivery attempt of at most one cycle: no alert call
\* is given an id that an earlier alert call was given, whether or not that
\* delivery succeeded.
C14_AtMostOnce ==
    [][(pc = "alert" /\ pc' # "alert") => (ids_of(new) \cap alerted = {})]_vars

\* what C14 says, of the ids whose cycle returned: an id in the seen set is
\* never given to alert again
SeenIdIsNotAlertedAgain ==
    [][(pc = "alert" /\ pc' # "alert") => (ids_of(new) \cap (seen \cup Range(file.content)) = {})]_vars

\* ------------------------------------------------ the seen store by itself
\* load_seen and save_seen on any text the file may hold, written by the
\* program or not.  The text is kept as what json.load makes of it: not a
\* JSON document at all (complete = FALSE: garbage, an empty or a cut-off
\* file), or a JSON value of some kind with its items: the elements of an
\* array, the keys of an object, the characters of a string.
MaxItems == 2

StrA == <<97>>                                  \* "a"
StrB == <<98>>                                  \* "b"
ElemStr(x) == [t |-> "str", v |-> x]
ElemNum == [t |-> "num", v |-> <<49>>]          \* the number 1
ElemList == [t |-> "list", v |-> << >>]         \* a nested array []
StrElems == {ElemStr(StrA), ElemStr(StrB)}
Elems == StrElems \cup {ElemNum, ElemList}

Doc(complete, kind, items) ==
    [exists |-> TRUE, complete |-> complete, kind |-> kind, items |-> items]

Docs ==
    {NoDoc}
    \cup {Doc(FALSE, "array", << >>)}
    \cup {Doc(TRUE, "array", items) : items \in SeqsUpTo(Elems, MaxItems)}
    \cup {Doc(TRUE, "object", items) : items \in SeqsUpTo(StrElems, MaxItems)}
    \cup {Doc(TRUE, "string", items) : items \in SeqsUpTo(StrElems, MaxItems)}
    \cup {Doc(TRUE, "number", << >>), Doc(TRUE, "null", << >>)}

Raised == [raised |-> TRUE, value |-> {}]
Returned(set) == [raised |-> FALSE, value |-> set]

\* set(json.load(f)): JSONDecodeError on a text that is no JSON document,
\* TypeError on a value that cannot be iterated or an element that cannot be
\* hashed; a string gives its characters, an object its keys
set_of_json(doc) ==
    IF ~doc.complete THEN Raised
    ELSE IF doc.kind \in {"number", "null"} THEN Raised
    ELSE IF \E i \in DOMAIN doc.items : doc.items[i].t = "list" THEN Raised
    ELSE Returned(Range(doc.items))

\* load_seen, on any file
load_seen_any(doc) == IF doc.exists THEN set_of_json(doc) ELSE Returned({})

\* the text json.dump(sorted(seen)) has written once the file is closed
dumped(list) == Doc(TRUE, "array", [i \in DOMAIN list |-> ElemStr(list[i])])

\* the file is a JSON array of strings
IsStringList(doc) ==
    /\ doc.exists
    /\ doc.complete
    /\ doc.kind = "array"
    /\ \A i \in DOMAIN doc.items : doc.items[i].t = "str"

StoreStart ==
    /\ disk \in Docs
    /\ disk0 = disk
    /\ st_pc = "idle"
    /\ st_list = << >>
    /\ st_result = NoResult

\* seen = load_seen()
st_load ==
    /\ st_pc = "idle"
    /\ st_result' = load_seen_any(disk)
    /\ st_pc' = "loaded"
    /\ UNCHANGED <<disk, disk0, st_list>>
    /\ UNCHANGED <<cyclevars, parsevars, racevars>>

\* save_seen(seen): open(SEEN_FILE, "w") creates or truncates the file
st_open ==
    /\ st_pc \in {"idle", "loaded"}
    /\ \E set \in (SUBSET {StrA, StrB}) \ {{}} : st_list' = SortedSeq(set)
    /\ disk0' = disk
    /\ disk' = Doc(FALSE, "array", << >>)
    /\ st_pc' = "writing"
    /\ UNCHANGED st_result
    /\ UNCHANGED <<cyclevars, parsevars, racevars>>

\* json.dump: the next element of the list reaches the file
st_write ==
    /\ st_pc = "writing"
    /\ Len(disk.items) < Len(st_list)
    /\ disk' = Doc(FALSE, "array", Append(disk.items, ElemStr(st_list[Len(disk.items) + 1])))
    /\ UNCHANGED <<disk0, st_pc, st_list, st_result>>
    /\ UNCHANGED <<cyclevars, parsevars, racevars>>

\* the closing bracket is written and the with block closes the file
st_close ==
    /\ st_pc = "writing"
    /\ Len(disk.items) = Len(st_list)
    /\ disk' = Doc(TRUE, "array", disk.items)
    /\ st_pc' = "saved"
    /\ UNCHANGED <<disk0, st_list, st_result>>
    /\ UNCHANGED <<cyclevars, parsevars, racevars>>

\* a write raises (disk full) or the process is stopped inside save_seen
st_stop ==
    /\ st_pc = "writing"
    /\ st_pc' = "stopped"
    /\ UNCHANGED <<disk, disk0, st_list, st_result>>
    /\ UNCHANGED <<cyclevars, parsevars, racevars>>

\* the next invocation of the process
st_restart ==
    /\ st_pc \in {"saved", "stopped"}
    /\ st_pc' = "idle"
    /\ disk0' = disk
    /\ st_list' = << >>
    /\ st_result' = NoResult
    /\ UNCHANGED disk
    /\ UNCHANGED <<cyclevars, parsevars, racevars>>

StoreNext ==
    \/ st_load
    \/ st_open
    \/ st_write
    \/ st_close
    \/ st_stop
    \/ st_restart

\* the watcher's cycle at rest, on an empty site
CycleIdle ==
    /\ site = [q \in Pages |-> << >>]
    /\ file = NoFile
    /\ seen = {}
    /\ once = FALSE
    /\ pc = "stopped"
    /\ p = 1
    /\ found = << >>
    /\ failed = {}
    /\ seen_ids = << >>
    /\ new = << >>
    /\ tg = "notcalled"
    /\ mail = "notcalled"
    /\ msg = Empty
    /\ wrote = FALSE
    /\ seen0 = {}
    /\ file0 = NoFile
    /\ prev = NoPrev
    /\ alerted = {}

StoreInit == CycleIdle /\ StoreStart /\ ParseIdle /\ RaceIdle

StoreSpec == StoreInit /\ [][StoreNext]_vars

\* C11: load_seen returns the empty set when there is no file, and raises
\* whenever the file is not a JSON array of strings; it never returns a set
\* made from such a file.
C11_LoadRejectsWhatIsNoStringList ==
    (st_pc = "loaded") =>
        /\ ~disk.exists => st_result = Returned({})
        /\ (disk.exists /\ ~IsStringList(disk)) => st_result.raised

\* what load_seen does raise on: no JSON document, a number or null, an
\* array with an element that cannot be hashed
LoadRaisesOnlyOnJsonOrTypeError ==
    (st_pc = "loaded" /\ disk.exists) =>
        (st_result.raised <=>
            \/ ~disk.complete
            \/ disk.kind \in {"number", "null"}
            \/ \E i \in DOMAIN disk.items : disk.items[i].t = "list")

\* C12: save_seen is atomic for its caller: at every point, also when the
\* write fails or the process stops inside save_seen, the file holds the
\* complete previous text or the complete new sorted list.
C12_SaveIsAtomic ==
    (st_pc \in {"writing", "stopped", "saved"}) =>
        \/ disk = disk0
        \/ disk = dumped(st_list)

\* what does hold of save_seen: once it returns, the file is the new list
SaveCompletesWithTheList ==
    (st_pc = "saved") => (disk = dumped(st_list) /\ IsStringList(disk))

\* --------------------------------------------------- parse_jobs by itself
\* most anchors on the page given to parse_jobs
MaxScan == 3

\* the listings of the site and two anchors without text
ScanAnchors ==
    Anchors \cup
    { [text |-> Empty, href |-> RelA, org |-> Empty, upd |-> Empty],
      [text |-> Empty, href |-> RelB, org |-> OrgO,  upd |-> StampT1] }

ParseStart ==
    /\ ps_pc = "page"
    /\ ps_html \in SeqsUpTo(ScanAnchors, MaxScan)
    /\ ps_jobs = << >>

\* jobs = parse_jobs(html)
ps_parse ==
    /\ ps_pc = "page"
    /\ ps_jobs' = parse_jobs(ps_html)
    /\ ps_pc' = "parsed"
    /\ UNCHANGED ps_html
    /\ UNCHANGED <<cyclevars, storevars, racevars>>

ParseNext == ps_parse

ParseInit == CycleIdle /\ StoreIdle /\ ParseStart /\ RaceIdle

ParseSpec == ParseInit /\ [][ParseNext]_vars

\* anchor i is the first anchor of the page with this link and some text
FirstTitled(html, i, link) ==
    /\ urljoin(html[i].href) = link
    /\ html[i].text # Empty
    /\ \A k \in 1..(i - 1) : ~(urljoin(html[k].href) = link /\ html[k].text # Empty)

TitledIndex(html, link) == CHOOSE i \in DOMAIN html : FirstTitled(html, i, link)

\* C17: parse_jobs returns one record per distinct absolute link, in document
\* order: anchors without text and anchors whose link was processed before
\* are skipped, no two records share a link, and each record is made from the
\* first anchor with its link and a non-empty text.
C17_OneRecordPerLink ==
    (ps_pc = "parsed") =>
        /\ \A m, n \in DOMAIN ps_jobs : ps_jobs[m].link = ps_jobs[n].link => m = n
        /\ {ps_jobs[n].link : n \in DOMAIN ps_jobs}
             = {urljoin(ps_html[i].href) : i \in {k \in DOMAIN ps_html : ps_html[k].text # Empty}}
        /\ \A n \in DOMAIN ps_jobs :
               \E i \in DOMAIN ps_html :
                   /\ FirstTitled(ps_html, i, ps_jobs[n].link)
                   /\ ps_jobs[n].title = ps_html[i].text
                   /\ ps_jobs[n].org = ps_html[i].org
                   /\ ps_jobs[n].updated = ps_html[i].upd
        /\ \A m, n \in DOMAIN ps_jobs :
               m < n => TitledIndex(ps_html, ps_jobs[m].link) < TitledIndex(ps_html, ps_jobs[n].link)

C17_Witness ==
    /\ ps_pc = "parsed"
    /\ Len(ps_html) = 3
    /\ ps_html[1].text = Empty
    /\ ps_html[2].text # Empty
    /\ ps_html[3].text # Empty
    /\ ps_html[2].href # ps_html[3].href
    /\ urljoin(ps_html[1].href) = urljoin(ps_html[2].href)
    /\ urljoin(ps_html[2].href) = urljoin(ps_html[3].href)
    /\ Len(ps_jobs) = 1
    /\ ps_jobs[1].title = ps_html[2].text

\* ------------------------------------------ two invocations on one file
\* Two invocations of the process with --once (cron jobs that overlap) on
\* the same SEEN_FILE.  Neither takes a lock: each step of one is enabled
\* whatever the other is doing.  A page that raises adds what an empty page
\* adds, so the pages are the inputs and their failures are not listed.
RaceStart ==
    /\ rfile = NoFile
    /\ rpc = [i \in Procs |-> "stopped"]
    /\ rseen = [i \in Procs |-> {}]
    /\ rnew = [i \in Procs |-> {}]
    /\ rsaved = {}
    /\ relost = {}
    /\ raced = FALSE

\* seen = load_seen()
r_main(i) ==
    /\ rpc[i] = "stopped"
    /\ rseen' = [rseen EXCEPT ![i] = load_seen(rfile)]
    /\ rpc' = [rpc EXCEPT ![i] = "cycle"]
    /\ UNCHANGED <<rfile, rnew, rsaved, relost, raced>>
    /\ UNCHANGED <<cyclevars, storevars, parsevars>>

\* check_once up to and with alert(new): the pages are fetched and parsed,
\* the records deduplicated and filtered, the new ones alerted; with nothing
\* new, or with alert left by an exception, the invocation ends here
r_check(i, pages, raises) ==
    LET fnd == Concat([q \in Pages |-> parse_jobs(pages[q])])
        nw == ids_of(novel(dedup(fnd), rseen[i]))
    IN /\ rpc[i] = "cycle"
       /\ relost' = relost \cup ((nw \cap rsaved) \ Range(rfile.content))
       /\ IF nw = {} \/ raises
          THEN /\ rpc' = [rpc EXCEPT ![i] = "stopped"]
               /\ rseen' = [rseen EXCEPT ![i] = {}]
               /\ UNCHANGED rnew
          ELSE /\ rpc' = [rpc EXCEPT ![i] = "persist"]
               /\ rnew' = [rnew EXCEPT ![i] = nw]
               /\ UNCHANGED rseen
       /\ UNCHANGED <<rfile, rsaved, raced>>
       /\ UNCHANGED <<cyclevars, storevars, parsevars>>

\* the save with only the new ids written
r_persist_replaces(i) ==
    /\ rpc[i] = "persist"
    /\ rfile' = save_seen(rnew[i])
    /\ rsaved' = rsaved \cup rnew[i]
    /\ raced' = (raced \/ load_seen(rfile) # rseen[i])
    /\ rpc' = [rpc EXCEPT ![i] = "stopped"]
    /\ rseen' = [rseen EXCEPT ![i] = {}]
    /\ rnew' = [rnew EXCEPT ![i] = {}]
    /\ UNCHANGED relost
    /\ UNCHANGED <<cyclevars, storevars, parsevars>>

\* seen.update(ids of new); save_seen(seen); the invocation ends
r_persist(i) ==
    /\ rpc[i] = "persist"
    /\ rfile' = save_seen(rseen[i] \cup rnew[i])
    /\ rsaved' = rsaved \cup rnew[i]
    /\ raced' = (raced \/ load_seen(rfile) # rseen[i])
    /\ rpc' = [rpc EXCEPT ![i] = "stopped"]
    /\ rseen' = [rseen EXCEPT ![i] = {}]
    /\ rnew' = [rnew EXCEPT ![i] = {}]
    /\ UNCHANGED relost
    /\ UNCHANGED <<cyclevars, storevars, parsevars>>

RaceNext ==
    \/ \E i \in Procs : r_main(i)
    \/ \E i \in Procs : \E pages \in Sites, raises \in BOOLEAN : r_check(i, pages, raises)
    \/ \E i \in Procs : r_persist(i)

RaceInit == CycleIdle /\ StoreIdle /\ ParseIdle /\ RaceStart

RaceSpec == RaceInit /\ [][RaceNext]_vars

\* C15: with no lock on the file two overlapping invocations can lose an
\* id: one saves it, the other, which loaded before, saves over it, and a
\* later run alerts it again.  Only such an overlap does it: as long as every
\* save found the file as its invocation had loaded it, every saved id is in
\* the file and none is alerted again.
C15_OnlyOverlapLosesIds ==
    /\ relost \subseteq rsaved
    /\ ~raced => (rsaved \subseteq Range(rfile.content) /\ relost = {})

C15_Witness ==
    /\ raced
    /\ \E id \in rsaved : id \notin Range(rfile.content)
    /\ relost # {}
    /\ \A i \in Procs : rpc[i] = "stopped"

====
